---- MODULE Spec2Model ----
(***************************************************************************)
(* The polling hook usePolling (hooks/usePolling.ts) of the inventory      *)
(* console, as a state machine: one hook instance, the browser's interval  *)
(* timers, the calls of fetchFn that are in flight, and a clock.           *)
(*                                                                         *)
(* Time is counted in seconds; the pages poll every 2 s                    *)
(* (CollectionRunDetail) and every 3 s (CollectionRuns).                   *)
(*                                                                         *)
(* Two more machines follow the hook: the application shell (App,          *)
(* AppLayout, LoginPage) with the API client's request helper and upload   *)
(* functions, and the schedules dialog (SchedulesModal).  Each has its own *)
(* specification; the variables of the other machines stay as they are.    *)
(***************************************************************************)
EXTENDS Integers, Sequences, FiniteSets, TLC

\* ---- bounds of the model ----
MaxTime == 4      \* the clock stops here
MaxCalls == 3     \* no more invocations of fetchFn than this
MaxRequests == 2  \* no more requests issued by the shell than this
MaxHandlers == 3  \* no more handler calls started in the schedules dialog than this
MaxProviders == 2 \* no more providers listed by the service than this
MaxKeys == 2      \* no more keystrokes in the tag input than this
MaxMutations == 2 \* no more add or remove requests of the tag editor than this
MaxCancels == 2   \* no more cancel requests in flight at once than this

\* ---- inputs ----
Ops == {"fetchA", "fetchB"}      \* identities of fetchFn (a useCallback result)
Intervals == {2, 3}              \* intervalMs, in seconds
Thrown == {[isError |-> TRUE, message |-> "boom"],    \* throw new Error("boom")
           [isError |-> FALSE, message |-> "offline"]} \* throw "offline"

Null == [absent |-> TRUE]        \* null: data, error
NoTimer == 0                     \* timerRef.current = null

VARIABLES
  phase,        \* "rendered" (first render, effect not yet run), "mounted", "unmounted"
  enabled,      \* the props of the latest render
  intervalMs,
  fetchFn,
  data,         \* useState
  error,
  loading,
  timerRef,     \* timerRef.current
  timers,       \* the interval timers armed in the browser
  nextTimerId,  \* the id the next setInterval returns
  started,      \* how many times fetchFn has been invoked
  inflight,     \* the invocations that have not settled: [id, op]
  now,          \* the clock
  refreshFns,   \* the fetchFn of every refresh callback handed to the consumer so far
  quiet,        \* history: enabled was false in every render and refresh() was never called
  failures,     \* history: how many calls in a row have settled with a rejection
  idleWrite,    \* history: a call settled while the hook was mounted with enabled = false
  unhandled,    \* a promise returned by doFetch rejected (nobody awaits it)
  prompt,       \* history of the three-call scenario: no tick found a call in flight
  \* -- the application shell and the API client --
  stored,       \* localStorage's item 'inventory_creds' (Null: no such key)
  authed,       \* App's useState
  loginError,   \* LoginPage's error
  probes,       \* LoginPage's credential tests in flight: [id, username, password, headers]
  wire,         \* requests of the client in flight: [id, via, method, headers]
  issued,       \* how many requests the shell has issued
  lastOutcome,  \* how the latest request settled: [via, method, res, outcome]
  \* -- the schedules dialog --
  isOpen,       \* the dialog is mounted (ProvidersOverview renders it while schedulesFor is set)
  rows,         \* useState of SchedulesModal
  schLoading,
  showForm,
  editId,
  form,
  saving,
  err,
  busy,
  calls,        \* handler calls awaiting a request: [id, handler, stage, arg]
  schIssued,    \* how many handler calls have been started
  rejections,   \* handlers whose promise rejected with nobody handling it
  \* -- the vendor navigation and the vendor page --
  providers,    \* the vendor strings of the providers the service lists
  vendors,      \* VendorNav's useState: the canonical keys shown in the navigation
  vendor,       \* the :vendor parameter of the route shown (Null: another page)
  \* -- history of the run detail page --
  fresh,        \* a call of the current fetchFn has resolved
  \* -- the tag editor --
  tags,         \* useState of ResourceTagEditor: the ids of the applied tags
  inputValue,
  suggestions,
  sugLoading,
  tagSaving,    \* the editor's saving
  debounceRef,  \* debounceRef.current
  debounce,     \* the timeouts pending in the browser: [id, q, applied, left]
  nextDebounceId,
  searches,     \* api.listTags requests in flight: [id, q, applied]
  mutations,    \* add and remove requests in flight: [id, kind, arg]
  typed,        \* how many keystrokes there have been
  searched,     \* how many search requests have been issued
  mutated,      \* how many add or remove requests have been issued
  \* -- the collection runs page --
  cancelling,   \* useState of CollectionRunsPage: the ids of the runs being cancelled
  cancels       \* api.cancelCollectionRun requests in flight: [id, run]

pollVars == <<phase, enabled, intervalMs, fetchFn, data, error, loading, timerRef,
              timers, nextTimerId, started, inflight, now, refreshFns, quiet,
              failures, idleWrite, unhandled>>

appVars == <<stored, authed, loginError, probes, wire, issued, lastOutcome>>

schVars == <<isOpen, rows, schLoading, showForm, editId, form, saving, err, busy,
             calls, schIssued, rejections>>

vendVars == <<providers, vendors, vendor>>

\* The machines that follow the first three.
tagVars == <<tags, inputValue, suggestions, sugLoading, tagSaving, debounceRef,
             debounce, nextDebounceId, searches, mutations, typed, searched, mutated>>

runVars == <<cancelling, cancels>>

extVars == <<vendVars, fresh, tagVars, runVars>>

notVend == <<pollVars, prompt, appVars, schVars, fresh, tagVars, runVars>>

notTags == <<pollVars, prompt, appVars, schVars, vendVars, fresh, runVars>>

coreVars == <<pollVars, prompt, appVars, schVars>>

vars == <<pollVars, prompt, appVars, schVars, extVars>>

\* The part of the state that doFetch's start, the effect and its cleanup touch.
HookState ==
  [loading |-> loading, started |-> started, inflight |-> inflight,
   timers |-> timers, timerRef |-> timerRef, nextTimerId |-> nextTimerId]

Commit(s) ==
  /\ loading' = s.loading
  /\ started' = s.started
  /\ inflight' = s.inflight
  /\ timers' = s.timers
  /\ timerRef' = s.timerRef
  /\ nextTimerId' = s.nextTimerId

doFetchStart_setsLoading(s, fn) ==
  [s EXCEPT !.started = @ + 1,
            !.inflight = @ \cup {[id |-> s.started + 1, op |-> fn]},
            !.loading = TRUE]

\* doFetch up to its await: fetchFn() is invoked and the call is in flight.
doFetchStart(s, fn) ==
  [s EXCEPT !.started = @ + 1,
            !.inflight = @ \cup {[id |-> s.started + 1, op |-> fn]}]

setInterval_noRef(s, iv, fn) ==
  [s EXCEPT !.timers = @ \cup {[id |-> s.nextTimerId, op |-> fn, interval |-> iv,
                                armedAt |-> now, next |-> now + iv, fired |-> 0]},
            !.nextTimerId = @ + 1]

\* timerRef.current = setInterval(doFetch, intervalMs): a new timer whose first tick is iv from now.
setInterval(s, iv, fn) ==
  [s EXCEPT !.timers = @ \cup {[id |-> s.nextTimerId, op |-> fn, interval |-> iv,
                                armedAt |-> now, next |-> now + iv, fired |-> 0]},
            !.timerRef = s.nextTimerId,
            !.nextTimerId = @ + 1]

effect_noImmediate(s, en, iv, fn) ==
  IF ~en THEN s ELSE setInterval([s EXCEPT !.loading = TRUE], iv, fn)

effect_noGuard(s, en, iv, fn) ==
  setInterval(doFetchStart([s EXCEPT !.loading = TRUE], fn), iv, fn)

\* The body of the useEffect.
effect(s, en, iv, fn) ==
  IF ~en THEN s
  ELSE setInterval(doFetchStart([s EXCEPT !.loading = TRUE], fn), iv, fn)

cleanup_noop(s, had) == s

cleanup_abort(s, had) ==
  IF had /\ s.timerRef # NoTimer
    THEN [s EXCEPT !.timers = {t \in @ : t.id # s.timerRef}, !.inflight = {}]
    ELSE s

\* The function the effect returned, when it returned one (had): clearInterval.
cleanup(s, had) ==
  IF had /\ s.timerRef # NoTimer
    THEN [s EXCEPT !.timers = {t \in @ : t.id # s.timerRef}]
    ELSE s

\* e instanceof Error ? e : new Error(String(e))
ToError(e) == IF e.isError THEN e ELSE [isError |-> TRUE, message |-> e.message]

\* What a call can settle with: fetchFn resolves (with a value of its own, or
\* with null) or rejects.
Outcomes(i) ==
  {[kind |-> "resolve", value |-> [op |-> i.op, value |-> i.id]],
   [kind |-> "resolve", value |-> Null]}
  \cup {[kind |-> "reject", value |-> e] : e \in Thrown}

doFetchData_seqGuard(o) ==
  IF o.kind # "resolve" THEN data
  ELSE IF o.value # Null /\ data # Null /\ data.value > o.value.value THEN data
  ELSE o.value

doFetchData_clearOnError(o) == IF o.kind = "resolve" THEN o.value ELSE Null

\* doFetch after its await: the try, catch and finally blocks.
doFetchData(o) == IF o.kind = "resolve" THEN o.value ELSE data

doFetchError(o) == IF o.kind = "resolve" THEN Null ELSE ToError(o.value)

doFetchPromise_rethrow(o) == IF o.kind = "resolve" THEN "fulfilled" ELSE "rejected"

\* How the promise doFetch returned settles: the catch block handles every
\* rejection of fetchFn and throws nothing itself.
doFetchPromise(o) == "fulfilled"

TypeOK ==
  /\ phase \in {"rendered", "mounted", "unmounted"}
  /\ enabled \in BOOLEAN /\ intervalMs \in Intervals /\ fetchFn \in Ops
  /\ loading \in BOOLEAN
  /\ timerRef \in 0..MaxCalls
  /\ nextTimerId \in 1..(MaxCalls + 1)
  /\ started \in 0..MaxCalls
  /\ \A i \in inflight : i.id \in 1..started /\ i.op \in Ops
  /\ now \in 0..MaxTime
  /\ refreshFns \subseteq Ops /\ fetchFn \in refreshFns
  /\ quiet \in BOOLEAN
  /\ failures \in 0..MaxCalls /\ idleWrite \in BOOLEAN /\ unhandled \in BOOLEAN

Init ==
  /\ phase = "rendered"
  /\ enabled \in BOOLEAN
  /\ intervalMs \in Intervals
  /\ fetchFn \in Ops
  /\ data = Null
  /\ error = Null
  /\ loading = TRUE
  /\ timerRef = NoTimer
  /\ timers = {}
  /\ nextTimerId = 1
  /\ started = 0
  /\ inflight = {}
  /\ now = 0
  /\ refreshFns = {fetchFn}
  /\ quiet = ~enabled
  /\ failures = 0
  /\ idleWrite = FALSE
  /\ unhandled = FALSE

\* The first commit: the effect runs.
Mount ==
  /\ phase = "rendered"
  /\ phase' = "mounted"
  /\ Commit(effect(HookState, enabled, intervalMs, fetchFn))
  /\ UNCHANGED <<enabled, intervalMs, fetchFn, data, error, now, refreshFns, quiet,
                 failures, idleWrite, unhandled>>

Rerender_resetData(en, iv, fn) ==
  /\ phase = "mounted"
  /\ <<en, iv, fn>> # <<enabled, intervalMs, fetchFn>>
  /\ en => started < MaxCalls
  /\ enabled' = en /\ intervalMs' = iv /\ fetchFn' = fn
  /\ Commit(effect(cleanup(HookState, enabled), en, iv, fn))
  /\ quiet' = (quiet /\ ~en)
  /\ refreshFns' = refreshFns \cup {fn}
  /\ data' = Null
  /\ UNCHANGED <<phase, error, now, failures, idleWrite, unhandled>>

Rerender_depsNoInterval(en, iv, fn) ==
  /\ phase = "mounted"
  /\ <<en, iv, fn>> # <<enabled, intervalMs, fetchFn>>
  /\ en => started < MaxCalls
  /\ enabled' = en /\ intervalMs' = iv /\ fetchFn' = fn
  /\ IF <<en, fn>> # <<enabled, fetchFn>>
       THEN Commit(effect(cleanup(HookState, enabled), en, iv, fn))
       ELSE Commit(HookState)
  /\ quiet' = (quiet /\ ~en)
  /\ refreshFns' = refreshFns \cup {fn}
  /\ UNCHANGED <<phase, data, error, now, failures, idleWrite, unhandled>>

\* A render that changes a dependency of the effect (doFetch changes with
\* fetchFn): the previous effect's cleanup runs, then the effect.
Rerender(en, iv, fn) ==
  /\ phase = "mounted"
  /\ <<en, iv, fn>> # <<enabled, intervalMs, fetchFn>>
  /\ en => started < MaxCalls
  /\ enabled' = en /\ intervalMs' = iv /\ fetchFn' = fn
  /\ Commit(effect(cleanup(HookState, enabled), en, iv, fn))
  /\ quiet' = (quiet /\ ~en)
  /\ refreshFns' = refreshFns \cup {fn}
  /\ UNCHANGED <<phase, data, error, now, failures, idleWrite, unhandled>>

\* The consumer is disposed: the last effect's cleanup runs.
Unmount ==
  /\ phase = "mounted"
  /\ phase' = "unmounted"
  /\ Commit(cleanup(HookState, enabled))
  /\ UNCHANGED <<enabled, intervalMs, fetchFn, data, error, now, refreshFns, quiet,
                 failures, idleWrite, unhandled>>

TimerDue_breaker(t) == t.next = now /\ failures < 2

TimerDue_idle(t) == t.next <= now /\ inflight = {}

\* The browser runs a timer's callback when its interval has elapsed.
TimerDue(t) == t.next = now

\* An interval timer fires: the browser calls the doFetch it was armed with
\* and the timer stays armed for one interval later.
Tick(t) ==
  /\ TimerDue(t)
  /\ started < MaxCalls
  /\ Commit([doFetchStart(HookState, t.op) EXCEPT
               !.timers = (@ \ {t}) \cup {[t EXCEPT !.next = @ + t.interval,
                                                    !.fired = @ + 1]}])
  /\ UNCHANGED <<phase, enabled, intervalMs, fetchFn, data, error, now, refreshFns, quiet,
                 failures, idleWrite, unhandled>>

refresh_gated(s, fn) ==
  IF enabled THEN doFetchStart([s EXCEPT !.loading = TRUE], fn) ELSE s

refresh_rearm(s, fn) ==
  LET s1 == doFetchStart([s EXCEPT !.loading = TRUE], fn)
  IN [s1 EXCEPT !.timers = {[t EXCEPT !.next = now + t.interval] : t \in @}]

\* The refresh callback of the render whose fetchFn was fn (it calls that
\* render's doFetch).
refresh(s, fn) == doFetchStart([s EXCEPT !.loading = TRUE], fn)

\* refresh() is called: by a handler of the mounted consumer, or by a handler
\* that was awaiting a request since an earlier render or since before the
\* consumer was disposed (handleCancel: await api.cancelCollectionRun(...);
\* refresh()).
Refresh(fn) ==
  /\ phase \in {"mounted", "unmounted"}
  /\ fn \in refreshFns
  /\ started < MaxCalls
  /\ Commit(refresh(HookState, fn))
  /\ quiet' = FALSE
  /\ UNCHANGED <<phase, enabled, intervalMs, fetchFn, data, error, now, refreshFns,
                 failures, idleWrite, unhandled>>

\* A call in flight settles with outcome o.
Settle(i, o) ==
  /\ i \in inflight
  /\ data' = doFetchData(o)
  /\ error' = doFetchError(o)
  /\ loading' = FALSE
  /\ inflight' = inflight \ {i}
  /\ failures' = (IF o.kind = "reject" THEN failures + 1 ELSE 0)
  /\ idleWrite' = (idleWrite \/ (phase = "mounted" /\ ~enabled))
  /\ unhandled' = (unhandled \/ doFetchPromise(o) = "rejected")
  /\ UNCHANGED <<phase, enabled, intervalMs, fetchFn, timerRef, timers,
                 nextTimerId, started, now, refreshFns, quiet>>

\* Time passes, once every timer that is due has fired.
Advance ==
  /\ now < MaxTime
  /\ \A t \in timers : ~TimerDue(t)
  /\ now' = now + 1
  /\ UNCHANGED <<phase, enabled, intervalMs, fetchFn, data, error, loading,
                 timerRef, timers, nextTimerId, started, inflight, refreshFns, quiet,
                 failures, idleWrite, unhandled>>

\* The hook's steps leave the other machines alone.
Next ==
  \/ Mount /\ UNCHANGED <<prompt, appVars, schVars, extVars>>
  \/ \E en \in BOOLEAN, iv \in Intervals, fn \in Ops :
       Rerender(en, iv, fn) /\ UNCHANGED <<prompt, appVars, schVars, extVars>>
  \/ Unmount /\ UNCHANGED <<prompt, appVars, schVars, extVars>>
  \/ \E t \in timers : Tick(t) /\ UNCHANGED <<prompt, appVars, schVars, extVars>>
  \/ \E fn \in refreshFns : Refresh(fn) /\ UNCHANGED <<prompt, appVars, schVars, extVars>>
  \/ \E i \in inflight : \E o \in Outcomes(i) :
       Settle(i, o) /\ UNCHANGED <<prompt, appVars, schVars, extVars>>
  \/ Advance /\ UNCHANGED <<prompt, appVars, schVars, extVars>>

\* The shell before anybody has logged in, and the dialog before it is opened.
AppIdle ==
  /\ stored = Null /\ authed = FALSE /\ loginError = ""
  /\ probes = {} /\ wire = {} /\ issued = 0 /\ lastOutcome = Null

SchIdle ==
  /\ isOpen = FALSE /\ rows = {} /\ schLoading = FALSE /\ showForm = FALSE
  /\ editId = Null
  /\ form = [name |-> "", preset |-> "0 */6 * * *", custom |-> "", enabled |-> TRUE]
  /\ saving = FALSE /\ err = "" /\ busy = {}
  /\ calls = {} /\ schIssued = 0 /\ rejections = {}

\* The navigation before the provider list has arrived.
VendIdle == providers = {} /\ vendors = {} /\ vendor = Null

\* The tag editor of a resource without tags, before any input.
TagIdle ==
  /\ tags = {} /\ inputValue = "" /\ suggestions = {}
  /\ sugLoading = FALSE /\ tagSaving = FALSE
  /\ debounceRef = NoTimer /\ debounce = {} /\ nextDebounceId = 1
  /\ searches = {} /\ mutations = {}
  /\ typed = 0 /\ searched = 0 /\ mutated = 0

\* The runs page with no cancel under way.
RunIdle == cancelling = {} /\ cancels = {}

ExtIdle == VendIdle /\ fresh = FALSE /\ TagIdle /\ RunIdle

PollInit == Init /\ prompt = TRUE /\ AppIdle /\ SchIdle /\ ExtIdle

Spec == PollInit /\ [][Next]_vars

\* ---- the three-call scenario of the specification ----
\* The operation returns {value: 1}, {value: 2}, {value: 3} on its successive
\* calls, T = 1000 ms and enabled = true; the clock counts half seconds and
\* stops at 2500 ms.
ScenarioT == CHOOSE iv \in Intervals : \A other \in Intervals : iv <= other

ScenarioEnd == 2 * ScenarioT + ScenarioT \div 2

ScenarioInit ==
  /\ Init
  /\ enabled = TRUE
  /\ intervalMs = ScenarioT
  /\ prompt = TRUE
  /\ AppIdle /\ SchIdle /\ ExtIdle

\* The n-th call resolves with {value: n}.
ScenarioSettle(i) ==
  /\ Settle(i, [kind |-> "resolve", value |-> [op |-> i.op, value |-> i.id]])
  /\ UNCHANGED prompt

ScenarioTick(t) ==
  /\ Tick(t)
  /\ prompt' = (prompt /\ inflight = {})

\* The scenario's clock starts at the mount.
ScenarioAdvance ==
  /\ phase = "mounted"
  /\ now < ScenarioEnd
  /\ \A t \in timers : ~TimerDue(t)
  /\ now' = now + 1
  /\ UNCHANGED <<phase, enabled, intervalMs, fetchFn, data, error, loading,
                 timerRef, timers, nextTimerId, started, inflight, refreshFns, quiet,
                 failures, idleWrite, unhandled, prompt>>

ScenarioNext ==
  \/ Mount /\ UNCHANGED <<prompt, appVars, schVars, extVars>>
  \/ \E t \in timers : ScenarioTick(t) /\ UNCHANGED <<appVars, schVars, extVars>>
  \/ \E i \in inflight : ScenarioSettle(i) /\ UNCHANGED <<appVars, schVars, extVars>>
  \/ ScenarioAdvance /\ UNCHANGED <<appVars, schVars, extVars>>

SpecScenario == ScenarioInit /\ [][ScenarioNext]_vars

\* ---- the application shell and the API client ----
Usernames == {"admin"}
Passwords == {"pw", "bad"}

\* `${username}:${password}`
Format(username, password) == username \o ":" \o password

\* A value of localStorage: getItem returns the string or null.
Item(v) == [value |-> v]

CredItems == {Item(Format(u, p)) : u \in Usernames, p \in Passwords}

\* The truthiness test if (creds).
Truthy(item) == item # Null /\ item.value # ""

\* btoa: the base-64 text of a string, kept apart from the string itself.
btoa(text) == [base64 |-> text]

\* 'Basic ' + btoa(creds)
BasicHeader(text) == [scheme |-> "Basic", credentials |-> btoa(text)]

\* The headers callers pass in options: none, or a JSON content type.
OptionHeaders == {[ContentType |-> Null, Authorization |-> Null],
                  [ContentType |-> Item("application/json"), Authorization |-> Null]}

Methods == {"GET", "POST", "DELETE"}

requestHeaders_always(optionHeaders, creds) ==
  [optionHeaders EXCEPT
     !.Authorization = BasicHeader(IF creds # Null THEN creds.value ELSE "null")]

\* request: spread the caller's headers, then add Authorization when creds is truthy.
requestHeaders(optionHeaders, creds) ==
  IF Truthy(creds)
    THEN [optionHeaders EXCEPT !.Authorization = BasicHeader(creds.value)]
    ELSE optionHeaders

\* uploadPlugin, uploadMetricsImport: headers start empty (the browser sets the
\* multipart content type).
uploadHeaders(creds) ==
  IF Truthy(creds)
    THEN [ContentType |-> Null, Authorization |-> BasicHeader(creds.value)]
    ELSE [ContentType |-> Null, Authorization |-> Null]

\* Responses of the service: status, status text, body text, and whether the
\* body text is JSON.
Responses ==
  {[status |-> 200, statusText |-> "OK", text |-> "{\"results\":[]}", isJson |-> TRUE],
   [status |-> 200, statusText |-> "OK", text |-> "", isJson |-> FALSE],
   [status |-> 204, statusText |-> "No Content", text |-> "", isJson |-> FALSE],
   [status |-> 404, statusText |-> "Not Found", text |-> "{\"detail\":\"gone\"}", isJson |-> TRUE],
   [status |-> 500, statusText |-> "Internal Server Error", text |-> "<h1>oops</h1>", isJson |-> FALSE]}

\* Response.ok
ok(res) == res.status \in 200..299

\* Response.json(): the parsed body, or a SyntaxError.
json(res) ==
  IF res.isJson
    THEN [kind |-> "resolve", value |-> [parsed |-> res.text]]
    ELSE [kind |-> "reject", value |-> [name |-> "SyntaxError", message |-> "Unexpected end of JSON input"]]

requestOutcome_noOkCheck(method, res) ==
  IF method = "DELETE" /\ res.status = 204
    THEN [kind |-> "resolve", value |-> Null]
    ELSE json(res)

\* request, after fetch has resolved with res.
requestOutcome(method, res) ==
  IF method = "DELETE" /\ res.status = 204
    THEN [kind |-> "resolve", value |-> Null]
    ELSE IF ~ok(res)
      THEN [kind |-> "reject",
            value |-> [name |-> "Error",
                       message |-> ToString(res.status) \o " " \o res.statusText
                                     \o ": " \o res.text]]
      ELSE json(res)

\* text contains part
Contains(text, part) ==
  \E i \in 1..(Len(text) + 1) :
    /\ i + Len(part) - 1 <= Len(text)
    /\ SubSeq(text, i, i + Len(part) - 1) = part

\* uploadPlugin's then: the body is parsed first; a response that is not ok
\* throws an Error with json.detail || res.statusText.
uploadOutcome(res) ==
  IF json(res).kind = "reject"
    THEN json(res)
    ELSE IF ~ok(res)
      THEN [kind |-> "reject",
            value |-> [name |-> "Error",
                       message |-> IF Contains(res.text, "\"detail\"")
                                     THEN res.text ELSE res.statusText]]
      ELSE json(res)

\* The Log in button carries no isDisabled and LoginPage keeps no in-flight state.
LoginSubmitDisabled == FALSE

AppTypeOK ==
  /\ stored \in {Null} \cup CredItems
  /\ authed \in BOOLEAN
  /\ loginError \in {"", "Invalid username or password", "Cannot reach the inventory service"}
  /\ \A p \in probes : p.id \in 1..issued /\ p.username \in Usernames /\ p.password \in Passwords
  /\ \A r \in wire : r.id \in 1..issued /\ r.via \in {"request", "upload"} /\ r.method \in Methods
  /\ issued \in 0..MaxRequests

\* App's first render: authed is read from localStorage once.
AppInit ==
  /\ stored \in {Null} \cup CredItems
  /\ authed = Truthy(stored)
  /\ loginError = ""
  /\ probes = {}
  /\ wire = {}
  /\ issued = 0
  /\ lastOutcome = Null

\* LoginPage.handleSubmit up to its await: the credentials typed are tested
\* against the providers endpoint.
LoginSubmit(username, password) ==
  /\ ~authed
  /\ ~LoginSubmitDisabled
  /\ issued < MaxRequests
  /\ loginError' = ""
  /\ issued' = issued + 1
  /\ probes' = probes \cup
       {[id |-> issued + 1, username |-> username, password |-> password,
         headers |-> [ContentType |-> Null,
                      Authorization |-> BasicHeader(Format(username, password))]]}
  /\ UNCHANGED <<stored, authed, wire, lastOutcome>>

LoginSettle_persistAlways(p, answer) ==
  /\ p \in probes
  /\ probes' = probes \ {p}
  /\ stored' = Item(Format(p.username, p.password))
  /\ authed' = TRUE
  /\ loginError' = IF answer = "ok" THEN loginError
                   ELSE IF answer = "refused" THEN "Invalid username or password"
                   ELSE "Cannot reach the inventory service"
  /\ UNCHANGED <<wire, issued, lastOutcome>>

\* LoginPage.handleSubmit after its await: answer is "ok", "refused" (a response
\* that is not ok) or "unreachable" (fetch rejected).
LoginSettle(p, answer) ==
  /\ p \in probes
  /\ probes' = probes \ {p}
  /\ IF answer = "ok"
       THEN /\ stored' = Item(Format(p.username, p.password))
            /\ authed' = TRUE
            /\ UNCHANGED loginError
       ELSE /\ loginError' = IF answer = "refused"
                               THEN "Invalid username or password"
                               ELSE "Cannot reach the inventory service"
            /\ UNCHANGED <<stored, authed>>
  /\ UNCHANGED <<wire, issued, lastOutcome>>

\* AppLayout's Log out button: removeItem, then navigate('/login').
Logout ==
  /\ authed
  /\ stored' = Null
  /\ UNCHANGED <<authed, loginError, probes, wire, issued, lastOutcome>>

\* Another tab writes or removes the item; the storage event runs sync here.
StorageEvent(item) ==
  /\ item # stored
  /\ stored' = item
  /\ authed' = Truthy(item)
  /\ UNCHANGED <<loginError, probes, wire, issued, lastOutcome>>

\* A page under AppLayout (a poll tick, a button) calls the request helper.
ApiRequest(method, optionHeaders) ==
  /\ authed
  /\ issued < MaxRequests
  /\ issued' = issued + 1
  /\ wire' = wire \cup {[id |-> issued + 1, via |-> "request", method |-> method,
                         headers |-> requestHeaders(optionHeaders, stored)]}
  /\ UNCHANGED <<stored, authed, loginError, probes, lastOutcome>>

\* A page under AppLayout uploads a plugin archive or a metrics tarball.
Upload ==
  /\ authed
  /\ issued < MaxRequests
  /\ issued' = issued + 1
  /\ wire' = wire \cup {[id |-> issued + 1, via |-> "upload", method |-> "POST",
                         headers |-> uploadHeaders(stored)]}
  /\ UNCHANGED <<stored, authed, loginError, probes, lastOutcome>>

\* The service answers a request of the helper.
ApiSettle(r, res) ==
  /\ r \in wire /\ r.via = "request"
  /\ wire' = wire \ {r}
  /\ lastOutcome' = [via |-> r.via, method |-> r.method, res |-> res,
                     outcome |-> requestOutcome(r.method, res)]
  /\ UNCHANGED <<stored, authed, loginError, probes, issued>>

\* The service answers an upload.
UploadSettle(r, res) ==
  /\ r \in wire /\ r.via = "upload"
  /\ wire' = wire \ {r}
  /\ lastOutcome' = [via |-> r.via, method |-> r.method, res |-> res,
                     outcome |-> uploadOutcome(res)]
  /\ UNCHANGED <<stored, authed, loginError, probes, issued>>

\* What App renders: authed ? <AppLayout /> : the login route.
View == IF authed THEN "AppLayout" ELSE "LoginPage"

\* The hook above and the dialog below stand still while the shell runs.
PollIdle ==
  /\ Init /\ enabled = FALSE /\ intervalMs = ScenarioT
  /\ fetchFn = CHOOSE fn \in Ops : TRUE
  /\ prompt = TRUE

AppStart == AppInit /\ PollIdle /\ SchIdle /\ ExtIdle

AppNext ==
  \/ \E u \in Usernames, p \in Passwords :
       LoginSubmit(u, p) /\ UNCHANGED <<pollVars, prompt, schVars, extVars>>
  \/ \E p \in probes, answer \in {"ok", "refused", "unreachable"} :
       LoginSettle(p, answer) /\ UNCHANGED <<pollVars, prompt, schVars, extVars>>
  \/ Logout /\ UNCHANGED <<pollVars, prompt, schVars, extVars>>
  \/ \E item \in {Null} \cup CredItems :
       StorageEvent(item) /\ UNCHANGED <<pollVars, prompt, schVars, extVars>>
  \/ \E m \in Methods, h \in OptionHeaders :
       ApiRequest(m, h) /\ UNCHANGED <<pollVars, prompt, schVars, extVars>>
  \/ Upload /\ UNCHANGED <<pollVars, prompt, schVars, extVars>>
  \/ \E r \in wire, res \in Responses :
       ApiSettle(r, res) /\ UNCHANGED <<pollVars, prompt, schVars, extVars>>
  \/ \E r \in wire, res \in Responses :
       UploadSettle(r, res) /\ UNCHANGED <<pollVars, prompt, schVars, extVars>>

SpecApp == AppStart /\ [][AppNext]_vars

\* ---- the schedules dialog ----
\* PRESETS (the values of the frequency select).
Presets == {"*/15 * * * *", "0 * * * *", "0 */4 * * *", "0 */6 * * *",
            "0 0 * * *", "0 2 * * *", "0 0 * * 0", "__custom__"}

\* blank()
blank == [name |-> "", preset |-> "0 */6 * * *", custom |-> "", enabled |-> TRUE]

\* The schedules the service may list for the provider.
Catalogue == {[id |-> "s1", name |-> "Nightly", cron_expression |-> "5 4 * * *",
               enabled |-> TRUE]}

ListResults == SUBSET Catalogue

\* What the user types or selects in the form.
Names == {"", "  ", "Nightly"}
PresetChoices == {"0 */6 * * *", "__custom__"}
Customs == {"", "5 4 * * *"}

\* What a rejected request of the client carries.
Failures == {[name |-> "Error", message |-> "500 Internal Server Error: "],
             [name |-> "TypeError", message |-> "Failed to fetch"]}

RECURSIVE TrimStart(_)
TrimStart(text) ==
  IF Len(text) > 0 /\ SubSeq(text, 1, 1) = " "
    THEN TrimStart(SubSeq(text, 2, Len(text)))
    ELSE text

RECURSIVE TrimEnd(_)
TrimEnd(text) ==
  IF Len(text) > 0 /\ SubSeq(text, Len(text), Len(text)) = " "
    THEN TrimEnd(SubSeq(text, 1, Len(text) - 1))
    ELSE text

\* String.prototype.trim
Trim(text) == TrimEnd(TrimStart(text))

\* cronExpr()
cronExpr == IF form.preset = "__custom__" THEN form.custom ELSE form.preset

\* (ex as { message?: string }).message ?? 'Save failed.'
saveMessage(ex) == IF "message" \in DOMAIN ex THEN ex.message ELSE "Save failed."

SchTypeOK ==
  /\ isOpen \in BOOLEAN /\ schLoading \in BOOLEAN /\ showForm \in BOOLEAN
  /\ saving \in BOOLEAN
  /\ rows \in ListResults
  /\ editId \in {Null} \cup {Item(s.id) : s \in Catalogue}
  /\ form.name \in Names /\ form.preset \in Presets /\ form.custom \in Customs
  /\ busy \subseteq {s.id : s \in Catalogue}
  /\ \A c \in calls : /\ c.id \in 1..schIssued
                      /\ c.handler \in {"effect", "save", "del", "toggle"}
                      /\ c.stage \in {"write", "list"}
  /\ schIssued \in 0..MaxHandlers
  /\ rejections \subseteq {"load", "del"}

\* ProvidersOverview sets schedulesFor: the dialog mounts and its effect calls load().
SchOpen ==
  /\ ~isOpen /\ schIssued = 0
  /\ isOpen' = TRUE
  /\ schLoading' = TRUE
  /\ schIssued' = schIssued + 1
  /\ calls' = calls \cup {[id |-> schIssued + 1, handler |-> "effect",
                           stage |-> "list", arg |-> Null]}
  /\ UNCHANGED <<rows, showForm, editId, form, saving, err, busy, rejections>>

\* onClose: ProvidersOverview clears schedulesFor and the dialog unmounts.
SchClose ==
  /\ isOpen
  /\ isOpen' = FALSE
  /\ UNCHANGED <<rows, schLoading, showForm, editId, form, saving, err, busy,
                 calls, schIssued, rejections>>

startAdd ==
  /\ isOpen /\ ~showForm
  /\ editId' = Null
  /\ form' = blank
  /\ err' = ""
  /\ showForm' = TRUE
  /\ UNCHANGED <<isOpen, rows, schLoading, saving, busy, calls, schIssued, rejections>>

startEdit(s) ==
  /\ isOpen /\ ~showForm /\ ~schLoading /\ s \in rows
  /\ LET isPreset == s.cron_expression \in Presets \ {"__custom__"}
     IN  form' = [name |-> s.name,
                  preset |-> IF isPreset THEN s.cron_expression ELSE "__custom__",
                  custom |-> IF isPreset THEN "" ELSE s.cron_expression,
                  enabled |-> s.enabled]
  /\ editId' = Item(s.id)
  /\ err' = ""
  /\ showForm' = TRUE
  /\ UNCHANGED <<isOpen, rows, schLoading, saving, busy, calls, schIssued, rejections>>

\* The onChange handlers of the form's fields.
SetName(v) ==
  /\ isOpen /\ showForm
  /\ form' = [form EXCEPT !.name = v]
  /\ UNCHANGED <<isOpen, rows, schLoading, showForm, editId, saving, err, busy,
                 calls, schIssued, rejections>>

SetPreset(v) ==
  /\ isOpen /\ showForm
  /\ form' = [form EXCEPT !.preset = v]
  /\ UNCHANGED <<isOpen, rows, schLoading, showForm, editId, saving, err, busy,
                 calls, schIssued, rejections>>

SetCustom(v) ==
  /\ isOpen /\ showForm /\ form.preset = "__custom__"
  /\ form' = [form EXCEPT !.custom = v]
  /\ UNCHANGED <<isOpen, rows, schLoading, showForm, editId, saving, err, busy,
                 calls, schIssued, rejections>>

\* The form's Cancel button.
CancelForm ==
  /\ isOpen /\ showForm /\ ~saving
  /\ showForm' = FALSE
  /\ UNCHANGED <<isOpen, rows, schLoading, editId, form, saving, err, busy,
                 calls, schIssued, rejections>>

save_noValidation ==
  /\ isOpen /\ showForm /\ ~saving
  /\ schIssued < MaxHandlers
  /\ saving' = TRUE
  /\ err' = ""
  /\ schIssued' = schIssued + 1
  /\ calls' = calls \cup
       {[id |-> schIssued + 1, handler |-> "save", stage |-> "write",
         arg |-> [editId |-> editId,
                  payload |-> [name |-> Trim(form.name),
                               cron_expression |-> Trim(cronExpr),
                               enabled |-> form.enabled]]]}
  /\ UNCHANGED <<isOpen, rows, schLoading, showForm, editId, form, busy, rejections>>

\* save up to its first await; the button is disabled while saving.
save ==
  /\ isOpen /\ showForm /\ ~saving
  /\ LET e == Trim(cronExpr)
     IN  IF Trim(form.name) = ""
           THEN /\ err' = "Name is required."
                /\ UNCHANGED <<saving, calls, schIssued>>
           ELSE IF e = ""
             THEN /\ err' = "Cron expression is required."
                  /\ UNCHANGED <<saving, calls, schIssued>>
             ELSE /\ schIssued < MaxHandlers
                  /\ saving' = TRUE
                  /\ err' = ""
                  /\ schIssued' = schIssued + 1
                  /\ calls' = calls \cup
                       {[id |-> schIssued + 1, handler |-> "save", stage |-> "write",
                         arg |-> [editId |-> editId,
                                  payload |-> [name |-> Trim(form.name),
                                               cron_expression |-> e,
                                               enabled |-> form.enabled]]]}
  /\ UNCHANGED <<isOpen, rows, schLoading, showForm, editId, form, busy, rejections>>

\* del up to its first await; the button is disabled while the row is busy.
del(s) ==
  /\ isOpen /\ ~showForm /\ ~schLoading /\ s \in rows /\ s.id \notin busy
  /\ schIssued < MaxHandlers
  /\ busy' = busy \cup {s.id}
  /\ schIssued' = schIssued + 1
  /\ calls' = calls \cup {[id |-> schIssued + 1, handler |-> "del", stage |-> "write",
                           arg |-> [id |-> s.id]]}
  /\ UNCHANGED <<isOpen, rows, schLoading, showForm, editId, form, saving, err, rejections>>

\* toggle up to its first await.
toggle(s) ==
  /\ isOpen /\ ~showForm /\ ~schLoading /\ s \in rows
  /\ schIssued < MaxHandlers
  /\ schIssued' = schIssued + 1
  /\ calls' = calls \cup {[id |-> schIssued + 1, handler |-> "toggle", stage |-> "write",
                           arg |-> [id |-> s.id, enabled |-> ~s.enabled]]}
  /\ UNCHANGED <<isOpen, rows, schLoading, showForm, editId, form, saving, err, busy,
                 rejections>>

\* How a handler's promise ends when the request it awaits rejects:
\* save and toggle catch; load (called by the effect) and del do not.
Escapes(handler) == handler \in {"effect", "del"}

\* The rejection of handler call c, when nothing catches it, is unhandled.
Rejected(c) ==
  IF Escapes(c.handler)
    THEN rejections \cup {IF c.handler = "effect" THEN "load" ELSE c.handler}
    ELSE rejections

\* The create, update or delete request of call c settles: the handler goes on
\* to load(), or to its catch and finally.
WriteSettle(c, o) ==
  /\ c \in calls /\ c.stage = "write"
  /\ IF o.kind = "resolve"
       THEN /\ showForm' = IF c.handler = "save" THEN FALSE ELSE showForm
            /\ schLoading' = TRUE
            /\ calls' = (calls \ {c}) \cup {[c EXCEPT !.stage = "list"]}
            /\ UNCHANGED <<saving, err, busy, rejections>>
       ELSE /\ calls' = calls \ {c}
            /\ err' = IF c.handler = "save" THEN saveMessage(o.value) ELSE err
            /\ saving' = IF c.handler = "save" THEN FALSE ELSE saving
            /\ busy' = IF c.handler = "del" THEN busy \ {c.arg.id} ELSE busy
            /\ rejections' = Rejected(c)
            /\ UNCHANGED <<showForm, schLoading>>
  /\ UNCHANGED <<isOpen, rows, editId, form, schIssued>>

\* The list request of load() settles: load's try and finally, then the rest
\* of the handler that called it.
ListSettle(c, o) ==
  /\ c \in calls /\ c.stage = "list"
  /\ calls' = calls \ {c}
  /\ schLoading' = FALSE
  /\ saving' = IF c.handler = "save" THEN FALSE ELSE saving
  /\ busy' = IF c.handler = "del" THEN busy \ {c.arg.id} ELSE busy
  /\ IF o.kind = "resolve"
       THEN /\ rows' = o.value
            /\ UNCHANGED <<err, rejections>>
       ELSE /\ err' = IF c.handler = "save" THEN saveMessage(o.value) ELSE err
            /\ rejections' = Rejected(c)
            /\ UNCHANGED rows
  /\ UNCHANGED <<isOpen, showForm, editId, form, schIssued>>

WriteOutcomes == {[kind |-> "resolve", value |-> Null]}
                   \cup {[kind |-> "reject", value |-> f] : f \in Failures}

ListOutcomes == {[kind |-> "resolve", value |-> l] : l \in ListResults}
                  \cup {[kind |-> "reject", value |-> f] : f \in Failures}

SchStart == SchIdle /\ PollIdle /\ AppIdle /\ ExtIdle

SchNext ==
  \/ SchOpen /\ UNCHANGED <<pollVars, prompt, appVars, extVars>>
  \/ SchClose /\ UNCHANGED <<pollVars, prompt, appVars, extVars>>
  \/ startAdd /\ UNCHANGED <<pollVars, prompt, appVars, extVars>>
  \/ \E s \in rows : startEdit(s) /\ UNCHANGED <<pollVars, prompt, appVars, extVars>>
  \/ \E v \in Names : SetName(v) /\ UNCHANGED <<pollVars, prompt, appVars, extVars>>
  \/ \E v \in PresetChoices : SetPreset(v) /\ UNCHANGED <<pollVars, prompt, appVars, extVars>>
  \/ \E v \in Customs : SetCustom(v) /\ UNCHANGED <<pollVars, prompt, appVars, extVars>>
  \/ CancelForm /\ UNCHANGED <<pollVars, prompt, appVars, extVars>>
  \/ save /\ UNCHANGED <<pollVars, prompt, appVars, extVars>>
  \/ \E s \in rows : del(s) /\ UNCHANGED <<pollVars, prompt, appVars, extVars>>
  \/ \E s \in rows : toggle(s) /\ UNCHANGED <<pollVars, prompt, appVars, extVars>>
  \/ \E c \in calls, o \in WriteOutcomes :
       WriteSettle(c, o) /\ UNCHANGED <<pollVars, prompt, appVars, extVars>>
  \/ \E c \in calls, o \in ListOutcomes :
       ListSettle(c, o) /\ UNCHANGED <<pollVars, prompt, appVars, extVars>>

SpecSchedules == SchStart /\ [][SchNext]_vars

\* ---- vendor normalisation, the vendor navigation and the vendor page ----
UpperCase == "ABCDEFGHIJKLMNOPQRSTUVWXYZ"
LowerCase == "abcdefghijklmnopqrstuvwxyz"

\* One character of String.prototype.toLowerCase.
LowerChar(ch) ==
  IF \E i \in 1..Len(UpperCase) : SubSeq(UpperCase, i, i) = ch
    THEN LET i == CHOOSE j \in 1..Len(UpperCase) : SubSeq(UpperCase, j, j) = ch
         IN  SubSeq(LowerCase, i, i)
    ELSE ch

RECURSIVE toLowerCase(_)
toLowerCase(text) ==
  IF Len(text) = 0
    THEN text
    ELSE LowerChar(SubSeq(text, 1, 1)) \o toLowerCase(SubSeq(text, 2, Len(text)))

\* VENDOR_ALIASES, as Object.entries lists it.
VENDOR_ALIASES ==
  << <<"amazon", "aws">>, <<"google", "gcp">>, <<"microsoft", "azure">>,
     <<"vsphere", "vmware">>, <<"redhat", "openshift">>, <<"kubernetes", "openshift">> >>

normalizeVendor_caseSensitive(raw) ==
  IF \E i \in 1..Len(VENDOR_ALIASES) : VENDOR_ALIASES[i][1] = raw
    THEN VENDOR_ALIASES[CHOOSE i \in 1..Len(VENDOR_ALIASES) : VENDOR_ALIASES[i][1] = raw][2]
    ELSE raw

\* VENDOR_ALIASES[lower] ?? lower
normalizeVendor(raw) ==
  LET lower == toLowerCase(raw)
  IN  IF \E i \in 1..Len(VENDOR_ALIASES) : VENDOR_ALIASES[i][1] = lower
        THEN VENDOR_ALIASES[CHOOSE i \in 1..Len(VENDOR_ALIASES) :
                              VENDOR_ALIASES[i][1] = lower][2]
        ELSE lower

IsAliasOf(c, entry) == entry[2] = c

RECURSIVE KeysOf(_, _)
\* .filter(([, v]) => v === c).map(([k]) => k)
KeysOf(entries, c) ==
  IF entries = << >>
    THEN << >>
    ELSE (IF IsAliasOf(c, Head(entries)) THEN <<Head(entries)[1]>> ELSE << >>)
           \o KeysOf(Tail(entries), c)

vendorAliases_selfOnly(canonical) == <<toLowerCase(canonical)>>

\* [c, ...aliases]
vendorAliases(canonical) ==
  LET c == toLowerCase(canonical)
  IN  <<c>> \o KeysOf(VENDOR_ALIASES, c)

\* Array.prototype.includes
includes(array, x) == \E i \in 1..Len(array) : array[i] = x

\* The vendor strings the service may report for a provider.
RawVendors == {"aws", "AWS", "Amazon", "gcp", "Google", "vsphere", "VMware",
               "RedHat", "kubernetes", "openshift", "OpenStack"}

\* VendorPage: the providers whose lower-cased vendor is among the aliases.
shown ==
  IF vendor = Null
    THEN {}
    ELSE {p \in providers : includes(vendorAliases(vendor.value), toLowerCase(p))}

VendTypeOK ==
  /\ providers \subseteq RawVendors /\ Cardinality(providers) <= MaxProviders
  /\ vendor \in {Null} \cup {Item(normalizeVendor(r)) : r \in RawVendors}
  /\ shown \subseteq providers

\* api.listProviders resolves: VendorNav keeps the set of canonical keys (the
\* array it keeps is that set, sorted), and VendorPage's poll exposes the list.
ListProviders(listed) ==
  /\ Cardinality(listed) <= MaxProviders
  /\ providers' = listed
  /\ vendors' = {normalizeVendor(p) : p \in listed}
  /\ UNCHANGED vendor

\* A NavLink of VendorNav is followed.
Navigate(v) ==
  /\ v \in vendors
  /\ vendor' = Item(v)
  /\ UNCHANGED <<providers, vendors>>

\* Another page is shown.
Leave ==
  /\ vendor # Null
  /\ vendor' = Null
  /\ UNCHANGED <<providers, vendors>>

VendStart == ExtIdle /\ PollIdle /\ AppIdle /\ SchIdle

VendNext ==
  \/ \E listed \in SUBSET RawVendors :
       ListProviders(listed) /\ UNCHANGED notVend
  \/ \E v \in vendors : Navigate(v) /\ UNCHANGED notVend
  \/ Leave /\ UNCHANGED notVend

SpecVendors == VendStart /\ [][VendNext]_vars

\* ---- the run detail page: usePolling(fetchRun, 2000) ----
\* fetchRun is a useCallback on the route's id: every change of the id gives an
\* identity that was never used before, and the page never disables the hook.
DetailInterval == 2

DetailInit ==
  /\ Init
  /\ enabled = TRUE
  /\ intervalMs = DetailInterval
  /\ prompt = TRUE
  /\ AppIdle /\ SchIdle /\ ExtIdle

\* The route's id changes.
DetailRerender(fn) ==
  /\ fn \notin refreshFns
  /\ Rerender(TRUE, DetailInterval, fn)
  /\ fresh' = FALSE

DetailSettle(i, o) ==
  /\ Settle(i, o)
  /\ fresh' = (fresh \/ (i.op = fetchFn /\ o.kind = "resolve"))

DetailNext ==
  \/ Mount /\ UNCHANGED <<prompt, appVars, schVars, vendVars, fresh, tagVars, runVars>>
  \/ \E fn \in Ops : DetailRerender(fn) /\ UNCHANGED <<prompt, appVars, schVars, vendVars, tagVars, runVars>>
  \/ Unmount /\ UNCHANGED <<prompt, appVars, schVars, vendVars, fresh, tagVars, runVars>>
  \/ \E t \in timers : Tick(t) /\ UNCHANGED <<prompt, appVars, schVars, vendVars, fresh, tagVars, runVars>>
  \/ \E fn \in refreshFns : Refresh(fn) /\ UNCHANGED <<prompt, appVars, schVars, vendVars, fresh, tagVars, runVars>>
  \/ \E i \in inflight : \E o \in Outcomes(i) :
       DetailSettle(i, o) /\ UNCHANGED <<prompt, appVars, schVars, vendVars, tagVars, runVars>>
  \/ Advance /\ UNCHANGED <<prompt, appVars, schVars, vendVars, fresh, tagVars, runVars>>

SpecDetail == DetailInit /\ [][DetailNext]_vars

\* ---- the tag editor of a resource (its popover is open) ----
TagIds == {"t1", "t2"}

\* What the user may have in the tag input.
Queries == {"", " ", "db", "db2"}

\* The debounce of searchTags, 250 ms, in steps of 125 ms.
Debounce == 2

\* clearTimeout(debounceRef.current): the timer, when it is still pending, is gone.
clearTimeout(pending, id) == {t \in pending : t.id # id}

searchTags_noClear(s, q) ==
  IF Trim(q) = ""
    THEN [s EXCEPT !.suggestions = {}]
    ELSE [s EXCEPT !.debounce = @ \cup {[id |-> s.nextDebounceId, q |-> q,
                                         applied |-> s.tags, left |-> Debounce]},
                   !.debounceRef = s.nextDebounceId,
                   !.nextDebounceId = @ + 1]

\* searchTags(q), called by a render whose tags were s.tags.
searchTags(s, q) ==
  LET s1 == IF s.debounceRef # NoTimer
              THEN [s EXCEPT !.debounce = clearTimeout(@, s.debounceRef)]
              ELSE s
  IN  IF Trim(q) = ""
        THEN [s1 EXCEPT !.suggestions = {}]
        ELSE [s1 EXCEPT !.debounce = @ \cup {[id |-> s.nextDebounceId, q |-> q,
                                              applied |-> s.tags, left |-> Debounce]},
                        !.debounceRef = s.nextDebounceId,
                        !.nextDebounceId = @ + 1]

filterApplied_current(results, applied) == results \ tags

\* res.results.filter(t => !appliedIds.has(t.id)), appliedIds being the tags of
\* the render that called searchTags.
filterApplied(results, applied) == results \ applied

SearchState ==
  [suggestions |-> suggestions, debounce |-> debounce, debounceRef |-> debounceRef,
   nextDebounceId |-> nextDebounceId, tags |-> tags]

TagTypeOK ==
  /\ tags \subseteq TagIds /\ suggestions \subseteq TagIds
  /\ inputValue \in Queries
  /\ sugLoading \in BOOLEAN /\ tagSaving \in BOOLEAN
  /\ debounceRef \in 0..MaxKeys /\ nextDebounceId \in 1..(MaxKeys + 1)
  /\ \A t \in debounce : t.id \in 1..MaxKeys /\ t.q \in Queries /\ t.left \in 0..Debounce
  /\ \A r \in searches : r.id \in 1..MaxKeys /\ r.q \in Queries
  /\ \A m \in mutations : m.id \in 1..MaxMutations
  /\ typed \in 0..MaxKeys /\ searched \in 0..MaxKeys /\ mutated \in 0..MaxMutations

\* The editor mounts with the resource's tags.
TagInit ==
  /\ tags \in SUBSET TagIds
  /\ inputValue = ""
  /\ suggestions = {}
  /\ sugLoading = FALSE
  /\ tagSaving = FALSE
  /\ debounceRef = NoTimer
  /\ debounce = {}
  /\ nextDebounceId = 1
  /\ searches = {}
  /\ mutations = {}
  /\ typed = 0 /\ searched = 0 /\ mutated = 0

\* The input's onChange: setInputValue(v); searchTags(v).
Keystroke(v) ==
  /\ v # inputValue
  /\ typed < MaxKeys
  /\ typed' = typed + 1
  /\ inputValue' = v
  /\ LET s == searchTags(SearchState, v)
     IN  /\ suggestions' = s.suggestions
         /\ debounce' = s.debounce
         /\ debounceRef' = s.debounceRef
         /\ nextDebounceId' = s.nextDebounceId
  /\ UNCHANGED <<tags, sugLoading, tagSaving, searches, mutations, searched, mutated>>

\* 125 ms pass without a keystroke.
TagAdvance ==
  /\ debounce # {}
  /\ \A t \in debounce : t.left > 0
  /\ debounce' = {[t EXCEPT !.left = @ - 1] : t \in debounce}
  /\ UNCHANGED <<tags, inputValue, suggestions, sugLoading, tagSaving, debounceRef,
                 nextDebounceId, searches, mutations, typed, searched, mutated>>

\* The debounce timer fires: the callback up to its await.
DebounceFire(t) ==
  /\ t \in debounce /\ t.left = 0
  /\ debounce' = debounce \ {t}
  /\ sugLoading' = TRUE
  /\ searches' = searches \cup {[id |-> t.id, q |-> t.q, applied |-> t.applied]}
  /\ searched' = searched + 1
  /\ UNCHANGED <<tags, inputValue, suggestions, tagSaving, debounceRef, nextDebounceId,
                 mutations, typed, mutated>>

\* api.listTags settles: the callback's try, catch and finally.
SearchSettle(r, o) ==
  /\ r \in searches
  /\ searches' = searches \ {r}
  /\ suggestions' = IF o.kind = "resolve" THEN filterApplied(o.value, r.applied) ELSE {}
  /\ sugLoading' = FALSE
  /\ UNCHANGED <<tags, inputValue, tagSaving, debounceRef, debounce, nextDebounceId,
                 mutations, typed, searched, mutated>>

\* A suggestion's button (isDisabled={saving}): addTag up to its await.
addTag(tag) ==
  /\ tag \in suggestions /\ ~tagSaving
  /\ mutated < MaxMutations
  /\ tagSaving' = TRUE
  /\ mutated' = mutated + 1
  /\ mutations' = mutations \cup {[id |-> mutated + 1, kind |-> "add", arg |-> [id |-> tag]]}
  /\ UNCHANGED <<tags, inputValue, suggestions, sugLoading, debounceRef, debounce,
                 nextDebounceId, searches, typed, searched>>

\* createAndAddTag up to its await, started by the Create button
\* (isDisabled={saving}) or by Enter in the input (onKeyDown, not gated); the
\* tag sent is parsed from the trimmed input.
createAndAddTag(via) ==
  /\ via = "button" => ~tagSaving
  /\ Trim(inputValue) # ""
  /\ mutated < MaxMutations
  /\ tagSaving' = TRUE
  /\ mutated' = mutated + 1
  /\ mutations' = mutations \cup {[id |-> mutated + 1, kind |-> "create",
                                   arg |-> [raw |-> Trim(inputValue)]]}
  /\ UNCHANGED <<tags, inputValue, suggestions, sugLoading, debounceRef, debounce,
                 nextDebounceId, searches, typed, searched>>

\* A label's close button (onClose is undefined while saving): removeTag up to its await.
removeTag(tagId) ==
  /\ tagId \in tags /\ ~tagSaving
  /\ mutated < MaxMutations
  /\ tagSaving' = TRUE
  /\ mutated' = mutated + 1
  /\ mutations' = mutations \cup {[id |-> mutated + 1, kind |-> "remove", arg |-> [id |-> tagId]]}
  /\ UNCHANGED <<tags, inputValue, suggestions, sugLoading, debounceRef, debounce,
                 nextDebounceId, searches, typed, searched>>

\* api.addResourceTags or api.removeResourceTags settles: the try and finally
\* of addTag, createAndAddTag or removeTag.
MutationSettle(m, o) ==
  /\ m \in mutations
  /\ mutations' = mutations \ {m}
  /\ tags' = IF o.kind = "resolve" THEN o.value ELSE tags
  /\ tagSaving' = FALSE
  /\ inputValue' = IF m.kind = "remove" THEN inputValue ELSE ""
  /\ suggestions' = IF m.kind = "remove" THEN suggestions ELSE {}
  /\ UNCHANGED <<sugLoading, debounceRef, debounce, nextDebounceId, searches,
                 typed, searched, mutated>>

TagOutcomes == {[kind |-> "resolve", value |-> l] : l \in SUBSET TagIds}
                 \cup {[kind |-> "reject", value |-> f] : f \in Failures}

TagStart == TagInit /\ VendIdle /\ fresh = FALSE /\ RunIdle /\ PollIdle /\ AppIdle /\ SchIdle

TagNext ==
  \/ \E v \in Queries : Keystroke(v) /\ UNCHANGED notTags
  \/ TagAdvance /\ UNCHANGED notTags
  \/ \E t \in debounce : DebounceFire(t) /\ UNCHANGED notTags
  \/ \E r \in searches, o \in TagOutcomes : SearchSettle(r, o) /\ UNCHANGED notTags
  \/ \E tag \in suggestions : addTag(tag) /\ UNCHANGED notTags
  \/ \E via \in {"button", "enter"} : createAndAddTag(via) /\ UNCHANGED notTags
  \/ \E tagId \in tags : removeTag(tagId) /\ UNCHANGED notTags
  \/ \E m \in mutations, o \in TagOutcomes : MutationSettle(m, o) /\ UNCHANGED notTags

SpecTags == TagStart /\ [][TagNext]_vars

\* ---- the collection runs page ----
RunIds == {"r1", "r2"}

\* usePolling(fetchRuns, 3000), in seconds.
RunsInterval == 3

\* How api.cancelCollectionRun settles.
CancelAnswers == {"ok", "failed"}

RunsTypeOK ==
  /\ cancelling \subseteq RunIds
  /\ \A c \in cancels : c.id \in 1..MaxCancels /\ c.run \in RunIds
  /\ Cardinality(cancels) <= MaxCancels

\* The page's first render: fetchRuns is a useCallback without dependencies
\* and polling is always enabled.
RunsInit ==
  /\ Init
  /\ enabled = TRUE
  /\ intervalMs = RunsInterval
  /\ prompt = TRUE
  /\ AppIdle /\ SchIdle /\ ExtIdle

\* The Cancel button of a row (isLoading while the run is in cancelling, never
\* disabled): handleCancel up to its await.
handleCancel(runId) ==
  /\ phase = "mounted" /\ data # Null
  /\ Cardinality(cancels) < MaxCancels
  /\ cancelling' = cancelling \cup {runId}
  /\ cancels' = cancels \cup
       {[id |-> CHOOSE n \in 1..MaxCancels : \A c \in cancels : c.id # n, run |-> runId]}
  /\ UNCHANGED pollVars

\* api.cancelCollectionRun settles: handleCancel's try, catch and finally.
\* setCancelling does nothing once the page is disposed.
CancelSettle(c, answer) ==
  /\ c \in cancels
  /\ cancels' = cancels \ {c}
  /\ cancelling' = IF phase = "mounted" THEN cancelling \ {c.run} ELSE cancelling
  /\ IF answer = "ok"
       THEN /\ started < MaxCalls
            /\ Commit(refresh(HookState, fetchFn))
            /\ quiet' = FALSE
            /\ UNCHANGED <<phase, enabled, intervalMs, fetchFn, data, error, now,
                           refreshFns, failures, idleWrite, unhandled>>
       ELSE UNCHANGED pollVars

\* Everything but the page's own state and the hook's.
notRuns == <<prompt, appVars, schVars, vendVars, fresh, tagVars>>

RunsNext ==
  \/ Mount /\ UNCHANGED <<notRuns, runVars>>
  \/ Unmount /\ UNCHANGED <<notRuns, runVars>>
  \/ \E t \in timers : Tick(t) /\ UNCHANGED <<notRuns, runVars>>
  \/ phase = "mounted" /\ Refresh(fetchFn) /\ UNCHANGED <<notRuns, runVars>>
  \/ \E i \in inflight : \E o \in Outcomes(i) : Settle(i, o) /\ UNCHANGED <<notRuns, runVars>>
  \/ Advance /\ UNCHANGED <<notRuns, runVars>>
  \/ \E runId \in RunIds : handleCancel(runId) /\ UNCHANGED notRuns
  \/ \E c \in cancels, answer \in CancelAnswers : CancelSettle(c, answer) /\ UNCHANGED notRuns

SpecRuns == RunsInit /\ [][RunsNext]_vars

\* ---- the claims ----

\* A poll session starts: the effect runs with enabled = true on mount, or
\* after a render in which enabled went from false to true.
SessionStart ==
  /\ enabled'
  /\ \/ phase = "rendered" /\ phase' = "mounted"
     \/ phase = "mounted" /\ phase' = "mounted" /\ ~enabled

\* C1: whenever a session starts with enabled = true, loading becomes true
\* and fetchFn is invoked exactly once in that very step, with no time
\* elapsed and before the timer armed by the step has fired.
C1_ImmediateInvocation ==
  [][SessionStart =>
       /\ loading' = TRUE
       /\ started' = started + 1
       /\ inflight' = inflight \cup {[id |-> started + 1, op |-> fetchFn']}
       /\ now' = now
       /\ timers' # {}
       /\ \A t \in timers' : t.fired = 0 /\ t.next > now']_vars

\* C1 witness: mounted disabled, time passed, then enabled: the first call is
\* in flight at the instant the timer was armed.
C1_Witness ==
  /\ phase = "mounted" /\ enabled /\ now > 0 /\ loading
  /\ started = 1 /\ inflight = {[id |-> 1, op |-> fetchFn]}
  /\ \E t \in timers : t.armedAt = now /\ t.fired = 0

\* C2: while enabled has been false since creation and refresh() was never
\* called, fetchFn has never been invoked, no timer is armed, loading has its
\* initial value (true) and data and error are null.
C2_DisabledIsInert ==
  quiet => /\ started = 0 /\ inflight = {}
           /\ timers = {} /\ timerRef = NoTimer
           /\ loading = TRUE /\ data = Null /\ error = Null

\* C2 witness: the disabled session is mounted and the clock has run out.
C2_Witness == quiet /\ phase = "mounted" /\ now = MaxTime

\* C3: a call that resolves sets data to its result and error to null; a
\* call that rejects sets error to the failure (as an Error) and leaves data
\* as it was; either way loading is false afterwards.
C3_SettleWritesState ==
  [][\A i \in inflight : \A o \in Outcomes(i) :
       Settle(i, o) =>
         /\ loading' = FALSE
         /\ IF o.kind = "resolve"
              THEN data' = o.value /\ error' = Null
              ELSE /\ error' # Null /\ error'.isError
                   /\ error'.message = o.value.message
                   /\ data' = data]_vars

\* C3 witness: a call resolved with a value and a later call rejected: data
\* is still that value and error is set.
C3_Witness == data # Null /\ error # Null /\ ~loading /\ inflight = {}

\* C4: once data is non-null it stays non-null, unless a call resolves with
\* null itself.
C4_DataNeverCleared ==
  [][(data # Null /\ data' = Null) =>
       \E i \in inflight : Settle(i, [kind |-> "resolve", value |-> Null])]_vars

\* C4 witness: data of the first session survives a recreation of the
\* session whose call failed.
C4_Witness ==
  /\ data # Null /\ data.value = 1 /\ error # Null
  /\ nextTimerId >= 3 /\ phase = "mounted"

\* C5: in a step that leaves enabled false no timer stays armed, and while
\* enabled is false no timer fires.
C5_DisableStopsSchedule ==
  [][/\ ~enabled' => timers' = {}
     /\ ~enabled => \A t \in timers : ~Tick(t)]_vars

\* C5 witness: the session polled, was disabled, and its timer is gone.
C5_Witness ==
  /\ phase = "mounted" /\ ~enabled /\ timerRef # NoTimer /\ timers = {}
  /\ started >= 1 /\ now > 0

\* C6 (as claimed): after the consumer of a session with enabled = true is
\* disposed, fetchFn is never invoked again.
C6_NoInvocationAfterDisposal ==
  [][(phase = "unmounted" /\ enabled) => started' = started]_vars

\* C7: at most one timer is armed, it is the one timerRef holds and it was
\* armed for the current operation and interval; none is armed while enabled
\* is false or after disposal.
C7_AtMostOneTimer ==
  /\ Cardinality(timers) <= 1
  /\ \A t \in timers : t.id = timerRef /\ t.op = fetchFn /\ t.interval = intervalMs
  /\ (~enabled \/ phase = "unmounted") => timers = {}

\* C7 witness: a second timer has been armed and it is the only one.
C7_Witness ==
  /\ phase = "mounted" /\ nextTimerId >= 3
  /\ \E t \in timers : timers = {t} /\ t.id = nextTimerId - 1

\* A render of the mounted hook changes a dependency and leaves enabled true.
Recreate ==
  /\ phase = "mounted" /\ phase' = "mounted"
  /\ <<enabled', intervalMs', fetchFn'>> # <<enabled, intervalMs, fetchFn>>
  /\ enabled'

\* C8: when fetchFn, intervalMs or enabled changes and enabled is then true,
\* the old timer is gone, loading is true, one call of the current fetchFn is
\* started and the only timer is a new one counting intervalMs from now;
\* every tick of a timer comes a multiple of its interval after it was armed.
C8_RecreateOnChange ==
  [][/\ Recreate =>
          /\ loading' = TRUE
          /\ started' = started + 1
          /\ inflight' = inflight \cup {[id |-> started + 1, op |-> fetchFn']}
          /\ timerRef' = nextTimerId
          /\ timers' = {[id |-> nextTimerId, op |-> fetchFn', interval |-> intervalMs',
                         armedAt |-> now, next |-> now + intervalMs', fired |-> 0]}
     /\ \A t \in timers :
          Tick(t) => /\ now = t.armedAt + (t.fired + 1) * t.interval
                     /\ t.interval = intervalMs /\ t.op = fetchFn]_vars

\* C8 witness: the second timer, armed after time 0, has just fired its
\* first tick one interval after the change.
C8_Witness ==
  /\ phase = "mounted" /\ nextTimerId = 3
  /\ \E t \in timers : /\ t.id = 2 /\ t.fired = 1 /\ t.armedAt > 0
                       /\ now = t.armedAt + t.interval
                       /\ [id |-> 3, op |-> t.op] \in inflight

\* C9: refresh() on a polling session sets loading, starts exactly one call
\* (of the fetchFn the callback was made for) and leaves the timer as it
\* was, still due a multiple of its interval after it was armed.
C9_RefreshIsAdditive ==
  [][\A fn \in refreshFns :
       (Refresh(fn) /\ phase = "mounted" /\ enabled) =>
         /\ loading' = TRUE
         /\ started' = started + 1
         /\ inflight' = inflight \cup {[id |-> started + 1, op |-> fn]}
         /\ timers' = timers /\ timerRef' = timerRef
         /\ timers' # {}
         /\ \A t \in timers' : t.next = t.armedAt + (t.fired + 1) * t.interval]_vars

\* C9 witness: the first timer has ticked once, one refresh() was called,
\* and between two ticks the timer is still due at twice its interval.
C9_Witness ==
  /\ phase = "mounted" /\ enabled /\ started = 3
  /\ \E t \in timers : /\ t.id = 1 /\ t.fired = 1
                       /\ t.armedAt + t.interval < now /\ now < t.next
                       /\ t.next = t.armedAt + 2 * t.interval

\* C10: a timer armed at time a with interval T has issued its N-th tick
\* once more than N*T has elapsed, and not before N*T has elapsed, whatever
\* calls are still in flight.
C10_Cadence ==
  \A t \in timers : \A n \in 1..MaxTime :
    /\ now > t.armedAt + n * t.interval => t.fired >= n
    /\ now < t.armedAt + n * t.interval => t.fired < n

\* C10 witness: the second tick has been issued two intervals after the
\* start while the first call and the first tick's call are still in flight.
C10_Witness ==
  \E t \in timers : /\ t.fired = 2 /\ now = t.armedAt + 2 * t.interval
                    /\ Cardinality(inflight) = 3

\* C11: a tick or a refresh() adds its call to those in flight whatever is
\* in flight already, call ids follow start order, and a call that resolves
\* writes its result even over the result of a call that started after it.
C11_LastSettleWins ==
  [][/\ \A t \in timers :
          Tick(t) => /\ started' = started + 1
                     /\ inflight' = inflight \cup {[id |-> started + 1, op |-> t.op]}
     /\ \A fn \in refreshFns :
          Refresh(fn) => /\ started' = started + 1
                         /\ inflight' = inflight \cup {[id |-> started + 1, op |-> fn]}
     /\ \A i \in inflight : \A o \in Outcomes(i) :
          Settle(i, o) =>
            /\ inflight' = inflight \ {i}
            /\ o.kind = "resolve" => data' = o.value /\ error' = Null
            /\ o.kind = "reject" => error' = ToError(o.value)]_vars

\* C11 witness: two calls overlapped, the second settled first and the first
\* one's result is what is exposed once both have settled.
C11_Witness ==
  /\ started = 2 /\ inflight = {} /\ error = Null
  /\ data # Null /\ data.value = 1

\* C12: no promise of doFetch ever rejects, and after a rejection of fetchFn
\* the error state holds an Error carrying the thrown value's message.
C12_FailuresAreCaptured ==
  /\ unhandled = FALSE
  /\ failures > 0 => /\ error # Null
                     /\ error.isError
                     /\ error.message \in {e.message : e \in Thrown}

\* C12 witness: fetchFn rejected with the string "offline", which is exposed
\* wrapped in an Error.
C12_Witness ==
  failures > 0 /\ error = [isError |-> TRUE, message |-> "offline"] /\ ~unhandled

\* C13: however many calls in a row have failed, a mounted session with
\* enabled = true has its one timer armed with the current interval and no
\* tick of it has been skipped; error is null again once a call has succeeded.
C13_NoBackoff ==
  /\ (phase = "mounted" /\ enabled) =>
       \E t \in timers : /\ timers = {t}
                         /\ t.interval = intervalMs
                         /\ t.next = t.armedAt + (t.fired + 1) * t.interval
                         /\ now <= t.next
  /\ failures = 0 => error = Null

\* C13 witness: two calls in a row failed, the timer has ticked and its call
\* is in flight.
C13_Witness ==
  /\ phase = "mounted" /\ enabled /\ failures = 2 /\ error # Null
  /\ \E t \in timers : t.fired >= 1 /\ [id |-> 3, op |-> t.op] \in inflight

\* C14: the render that disables the session leaves the calls in flight
\* alone, and a call that settles while the mounted hook is disabled writes
\* data or error and clears loading, with no timer armed.
C14_DisableDoesNotAbort ==
  [][/\ (phase = "mounted" /\ enabled /\ ~enabled') => inflight' = inflight
     /\ \A i \in inflight : \A o \in Outcomes(i) :
          (phase = "mounted" /\ ~enabled /\ Settle(i, o)) =>
            /\ timers' = {}
            /\ loading' = FALSE
            /\ data' = (IF o.kind = "resolve" THEN o.value ELSE data)
            /\ error' = (IF o.kind = "resolve" THEN Null ELSE ToError(o.value))]_vars

\* C14 witness: the session is idle, no timer is armed, and the result of a
\* call that settled after the disable is exposed.
C14_Witness ==
  /\ idleWrite /\ phase = "mounted" /\ ~enabled /\ timers = {}
  /\ data # Null /\ ~loading /\ started = 1

\* C15 (as claimed): in the scenario, at 2500 ms data.value is 2 or 3, and
\* data is not null once a call has settled.
C15_AsClaimed ==
  /\ now = ScenarioEnd => (data # Null /\ data.value \in {2, 3})
  /\ started > Cardinality(inflight) => data # Null

\* C15 (amended): the same, for the runs in which every call had settled
\* when the next one was started.
C15_PromptScenario ==
  /\ (now = ScenarioEnd /\ prompt) => (data # Null /\ data.value \in {2, 3})
  /\ started > Cardinality(inflight) => data # Null

\* C15 witness: at 2500 ms the second call's result is exposed while the
\* third call, started at 2000 ms, is in flight.
C15_Witness ==
  /\ now = ScenarioEnd /\ prompt /\ started = 3
  /\ data # Null /\ data.value = 2
  /\ \E i \in inflight : inflight = {i} /\ i.id = 3

\* C16 (as claimed): the authenticated layout is rendered exactly when the
\* 'inventory_creds' item is present in local storage, the login page otherwise.
C16_LayoutIffCredsStored ==
  /\ (View = "AppLayout") <=> (stored # Null)
  /\ (View = "LoginPage") <=> (stored = Null)

\* C17: a request issued by the helper or by an upload function carries
\* Authorization: Basic <base64 of the stored credentials> when the item is
\* present at that moment, and no Authorization header when it is not.
C17_AuthHeaderFromStorage ==
  [][\A r \in wire' \ wire :
       r.headers.Authorization =
         (IF stored # Null
            THEN [scheme |-> "Basic", credentials |-> btoa(stored.value)]
            ELSE Null)]_vars

\* C17 witness: after a logout, an upload without the header is in flight next
\* to a request that was issued with the header before the logout.
C17_Witness ==
  /\ authed /\ stored = Null
  /\ \E r \in wire : r.via = "upload" /\ r.headers.Authorization = Null
  /\ \E r \in wire : r.via = "request" /\ r.headers.Authorization # Null

\* C18 (as claimed): DELETE answered 204 resolves with no value; any other
\* response outside 2xx rejects with an Error naming status, status text and
\* body text; every other response resolves with the body parsed as JSON.
C18_AsClaimed ==
  (lastOutcome # Null /\ lastOutcome.via = "request") =>
    LET m == lastOutcome.method
        res == lastOutcome.res
        o == lastOutcome.outcome
    IN  IF m = "DELETE" /\ res.status = 204
          THEN o = [kind |-> "resolve", value |-> Null]
          ELSE IF res.status \notin 200..299
            THEN /\ o.kind = "reject" /\ o.value.name = "Error"
                 /\ Contains(o.value.message, ToString(res.status))
                 /\ Contains(o.value.message, res.statusText)
                 /\ Contains(o.value.message, res.text)
            ELSE o = [kind |-> "resolve", value |-> [parsed |-> res.text]]

\* C18 (amended): as above, except that a 2xx response resolves with the parsed
\* body only when the body text is JSON and rejects with the parse error when
\* it is not; no response outside 2xx resolves.
C18_OutcomeByStatusAndBody ==
  (lastOutcome # Null /\ lastOutcome.via = "request") =>
    LET m == lastOutcome.method
        res == lastOutcome.res
        o == lastOutcome.outcome
    IN  /\ IF m = "DELETE" /\ res.status = 204
             THEN o = [kind |-> "resolve", value |-> Null]
             ELSE IF res.status \notin 200..299
               THEN /\ o.kind = "reject" /\ o.value.name = "Error"
                    /\ Contains(o.value.message, ToString(res.status))
                    /\ Contains(o.value.message, res.statusText)
                    /\ Contains(o.value.message, res.text)
               ELSE IF res.isJson
                 THEN o = [kind |-> "resolve", value |-> [parsed |-> res.text]]
                 ELSE o.kind = "reject" /\ o.value.name = "SyntaxError"
        /\ res.status \notin 200..299 => o.kind = "reject"

\* C18 witness: a POST or GET answered 204, whose empty body does not parse.
C18_Witness ==
  /\ lastOutcome # Null /\ lastOutcome.via = "request"
  /\ lastOutcome.method # "DELETE" /\ lastOutcome.res.status = 204
  /\ lastOutcome.outcome.kind = "reject"

\* C20 (as claimed, for the login form): while the login request is in flight
\* the submit control is disabled, so at most one login request is pending.
C20_LoginSubmitDisabledInFlight ==
  /\ (View = "LoginPage" /\ probes # {}) => LoginSubmitDisabled
  /\ Cardinality(probes) <= 1

\* C19 (as claimed, for the schedules dialog): a request that fails never
\* leaves a handler's promise rejected with nobody handling it.
C19_NoUnhandledRejection == rejections = {}

\* C21: a save of a form whose trimmed name or trimmed cron expression is empty
\* starts no request, sets the inline error text, and leaves saving, showForm
\* and rows as they were.
C21_ValidationBeforeRequest ==
  [][(save /\ (Trim(form.name) = "" \/ Trim(cronExpr) = "")) =>
       /\ calls' = calls /\ schIssued' = schIssued
       /\ err' = (IF Trim(form.name) = "" THEN "Name is required."
                                          ELSE "Cron expression is required.")
       /\ saving' = saving /\ showForm' = showForm /\ rows' = rows]_vars

\* C21 witness: a form with a name and an empty custom cron expression was
\* saved: the error is shown, the form stays open and no save call is pending.
C21_Witness ==
  /\ err = "Cron expression is required."
  /\ Trim(form.name) # "" /\ form.preset = "__custom__" /\ Trim(form.custom) = ""
  /\ showForm /\ ~saving
  /\ \A c \in calls : c.handler # "save"

\* C22: when a credential test settles, the credentials are stored (as
\* username:password) and the authenticated view is switched to only if the
\* response was ok; after a response that is not ok, or a network failure,
\* local storage and authed are as before and an error message is set.
C22_LoginPersistsOnlyOnOk ==
  [][\A p \in probes, answer \in {"ok", "refused", "unreachable"} :
       LoginSettle(p, answer) =>
         IF answer = "ok"
           THEN /\ stored' = [value |-> p.username \o ":" \o p.password]
                /\ authed'
           ELSE /\ stored' = stored /\ authed' = authed
                /\ loginError' # ""]_vars

\* C22 witness: a credential test failed on the network: the message is set,
\* nothing is stored and the login page is still shown.
C22_Witness ==
  /\ loginError = "Cannot reach the inventory service"
  /\ stored = Null /\ ~authed /\ probes = {} /\ issued > 0

\* The lower-case vendor strings: those the service reports and the alias keys.
LowerVendors ==
  {toLowerCase(r) : r \in RawVendors}
    \cup {VENDOR_ALIASES[i][1] : i \in 1..Len(VENDOR_ALIASES)}

\* C23: for the canonical key of the vendor page, vendorAliases lists exactly
\* the lower-case vendor strings that normalizeVendor maps to it (so the page
\* shows exactly the providers of that vendor); normalizeVendor gives the same
\* key whatever the case of its argument, and is idempotent.
C23_AliasesInvertNormalize ==
  /\ vendor # Null =>
        /\ {vendorAliases(vendor.value)[i] : i \in 1..Len(vendorAliases(vendor.value))}
             = {r \in LowerVendors : normalizeVendor(r) = vendor.value}
        /\ shown = {p \in providers : normalizeVendor(p) = vendor.value}
  /\ \A p \in providers :
        /\ normalizeVendor(normalizeVendor(p)) = normalizeVendor(p)
        /\ \A q \in RawVendors :
              toLowerCase(q) = toLowerCase(p) => normalizeVendor(q) = normalizeVendor(p)

\* C23 witness: the page of 'aws' shows a provider reported as 'Amazon' and
\* one reported as 'AWS'.
C23_Witness ==
  /\ vendor = [value |-> "aws"]
  /\ shown = {"Amazon", "AWS"}

\* C24: a scheduled tick leaves loading as it is, the settle of any call sets
\* it to false, only the effect (first run or re-run) and refresh() turn it
\* to true, and after any step loading = true with at least one call ever
\* started means that a call is in flight.
C24_LoadingTracksStartsNotTicks ==
  [][/\ \A t \in timers : Tick(t) => loading' = loading
     /\ \A i \in inflight : \A o \in Outcomes(i) : Settle(i, o) => ~loading'
     /\ (~loading /\ loading') =>
          \/ Mount
          \/ \E en \in BOOLEAN, iv \in Intervals, fn \in Ops : Rerender(en, iv, fn)
          \/ \E fn \in refreshFns : Refresh(fn)
     /\ (loading' /\ started' > 0) => inflight' # {}]_vars

\* C24 witness: loading is false while a call started by a tick is in flight.
C24_Witness ==
  /\ ~loading /\ inflight # {}
  /\ \E t \in timers : t.fired > 0

\* C25: refresh() called while enabled = false sets loading to true and starts
\* exactly one call, which is then in flight; no timer is armed by it and none
\* is armed while enabled is false.
C25_RefreshIgnoresEnabled ==
  [][\A fn \in refreshFns :
       (Refresh(fn) /\ ~enabled) =>
         /\ loading'
         /\ started' = started + 1
         /\ inflight' = inflight \cup {[id |-> started + 1, op |-> fn]}
         /\ timers = {} /\ timers' = {} /\ timerRef' = timerRef]_vars

\* C25 witness: no timer was ever armed (enabled has been false throughout),
\* yet a call, started by refresh(), is in flight and loading is true.
C25_Witness ==
  /\ ~enabled /\ phase = "mounted" /\ nextTimerId = 1
  /\ started = 1 /\ inflight # {} /\ loading /\ timers = {}

\* C26: a re-run of the effect for a new fetchFn leaves data and error as they
\* are and keeps every call that is in flight; and when a call of an earlier
\* fetchFn resolves, whatever has settled before, data becomes its result.
C26_RecreateKeepsDataAndCalls ==
  [][/\ \A fn \in Ops :
          DetailRerender(fn) =>
            /\ data' = data /\ error' = error
            /\ inflight \subseteq inflight'
     /\ \A i \in inflight : \A o \in Outcomes(i) :
          (DetailSettle(i, o) /\ i.op # fetchFn /\ o.kind = "resolve") =>
            data' = o.value]_vars

\* C26 witness: a call of the new fetchFn has resolved, and after it a call of
\* the previous fetchFn: data holds the previous operation's result.
C26_Witness ==
  /\ fresh /\ phase = "mounted"
  /\ data # Null /\ data.op # fetchFn

\* C27: at most one debounce timer is pending; a keystroke issues no request
\* itself and leaves pending only the timer it arms, for its own query and a
\* full 250 ms, or none when the query is empty or blank, in which case the
\* suggestions are emptied; a search request is issued only by a timer that
\* fires, one request for that timer's query.
C27_OneDebounceTimer ==
  [][/\ Cardinality(debounce') <= 1
     /\ \A v \in Queries :
          Keystroke(v) =>
            /\ searches' = searches
            /\ IF v \in {"", " "}
                 THEN debounce' = {} /\ suggestions' = {}
                 ELSE \E t \in debounce' :
                        debounce' = {t} /\ t.q = v /\ t.left = Debounce
     /\ searches' \ searches # {} =>
          \E t \in debounce :
            /\ t.left = 0
            /\ \E r \in searches' : searches' \ searches = {r} /\ r.q = t.q]_vars

\* C27 witness: two keystrokes with queries that are not blank, and one search
\* request, for the second of them.
C27_Witness ==
  /\ typed = 2 /\ searched = 1 /\ debounce = {}
  /\ \E r \in searches : r.id = 2 /\ r.q = inputValue

C29_OneMutationInFlight ==
  /\ Cardinality(mutations) <= 1
  /\ tagSaving <=> mutations # {}

\* C30 (as claimed): while the runs page is shown, a run id is in cancelling
\* exactly when a cancel request for that run is in flight.
C30_CancellingIffInFlight ==
  phase = "mounted" => cancelling = {c.run : c \in cancels}

====
